---------------------------- MODULE Spec2Model ----------------------------
(***************************************************************************)
(* KITTI label generation for CARLA agents (bounding_box.py).              *)
(*                                                                         *)
(* create_kitti_datapoint classifies an agent, projects its 3D bounding    *)
(* box into the camera, counts visible / outside corners against the depth *)
(* buffer, applies the visibility and area gates and emits a label.        *)
(*                                                                         *)
(* Numbers: the program computes in IEEE doubles.  The model computes in   *)
(* exact rationals <<numerator, denominator>> (denominator > 0, lowest     *)
(* terms), so that a pixel coordinate such as 32 + 20 * 0.99 / 4 and an    *)
(* area such as 99.99 are the values the program's arithmetic denotes.     *)
(* Angles in radians are rational multiples of pi: math.pi is the rational *)
(* 1 and math.radians(d) is d / 180.                                       *)
(***************************************************************************)
EXTENDS Integers, Sequences, FiniteSets, TLC

\* ------------------------------------------------------------------------
\* Exact rational arithmetic
\* ------------------------------------------------------------------------

Abs(n) == IF n < 0 THEN -n ELSE n

RECURSIVE GCD(_, _)
GCD(a, b) == IF b = 0 THEN a ELSE GCD(b, a % b)

\* n / d in lowest terms with a positive denominator (d # 0).
Rat(n, d) ==
    LET g == GCD(Abs(n), Abs(d))
        s == IF d < 0 THEN -1 ELSE 1
    IN  <<(s * n) \div g, (s * d) \div g>>

R(n) == <<n, 1>>

RatAdd(a, b) == Rat(a[1] * b[2] + b[1] * a[2], a[2] * b[2])
RatSub(a, b) == Rat(a[1] * b[2] - b[1] * a[2], a[2] * b[2])
RatMul(a, b) == Rat(a[1] * b[1], a[2] * b[2])
RatDiv(a, b) == Rat(a[1] * b[2], a[2] * b[1])
RatNeg(a)    == <<-a[1], a[2]>>
RatLess(a, b) == a[1] * b[2] < b[1] * a[2]
RatLeq(a, b)  == a[1] * b[2] <= b[1] * a[2]
RatMin(a, b) == IF RatLess(b, a) THEN b ELSE a
RatMax(a, b) == IF RatLess(a, b) THEN b ELSE a

\* Truncation toward zero: Python's int() of a float.
RatTrunc(a) == IF a[1] >= 0 THEN a[1] \div a[2] ELSE -((-a[1]) \div a[2])

\* ------------------------------------------------------------------------
\* Module constants of bounding_box.py and of its collaborators
\* ------------------------------------------------------------------------

\* Python's None.  Every value that may be None is a tuple (a type name is
\* the sequence of its characters, a label the tuple of its fields), so
\* that it compares with None.
None == <<>>

OCCLUDED_VERTEX_COLOR == <<255, 0, 0>>
VISIBLE_VERTEX_COLOR  == <<0, 255, 0>>
MIN_VISIBLE_VERTICES_FOR_RENDER == 4
MIN_BBOX_AREA_IN_PX == 100
DEFAULT_MAX_RENDER_DEPTH == 70
VERTEX_MARKER_SIZE == 4

\* Canvas of the camera image (camera_utils): [0, width) x [0, height).
WINDOW_WIDTH  == 64
WINDOW_HEIGHT == 48

\* ------------------------------------------------------------------------
\* Strings: a type tag is the sequence of its characters, so that Python's
\* substring test  'pedestrian' in agent.type_id  is a real search.
\* ------------------------------------------------------------------------

StrIn(sub, s) ==
    \E k \in 1..(Len(s) - Len(sub) + 1) : SubSeq(s, k, k + Len(sub) - 1) = sub

S_pedestrian == <<"p","e","d","e","s","t","r","i","a","n">>
S_vehicle    == <<"v","e","h","i","c","l","e">>
S_Pedestrian == <<"P","e","d","e","s","t","r","i","a","n">>
S_Car        == <<"C","a","r">>

TAG_walker == <<"w","a","l","k","e","r",".","p","e","d","e","s","t","r","i","a","n",".","0","0","0","1">>
TAG_audi   == <<"v","e","h","i","c","l","e",".","a","u","d","i",".","t","t">>
TAG_prop   == <<"s","t","a","t","i","c",".","p","r","o","p",".","b","o","x">>


\* ------------------------------------------------------------------------
\* Collaborators (camera_utils, datadescriptor, ClientSideBoundingBoxes)
\* ------------------------------------------------------------------------

\* pos = (row, col) = (y, x): inside the canvas [0, height) x [0, width).
point_in_canvas(pos) ==
    /\ RatLeq(R(0), pos[1]) /\ RatLess(pos[1], R(WINDOW_HEIGHT))
    /\ RatLeq(R(0), pos[2]) /\ RatLess(pos[2], R(WINDOW_WIDTH))

\* The depth buffer is one scene depth per pixel.  It is held as a
\* background depth and a wall of depth wall_depth over the columns
\* wall_from..wall_to (an empty range: no wall).
DepthAt(depth_map, row, col) ==
    IF col \in depth_map.wall_from..depth_map.wall_to
    THEN depth_map.wall_depth
    ELSE depth_map.bg

\* Occluded: the scene depth stored at the point's pixel (integer row and
\* column) is strictly less than the point's own depth.
point_is_occluded(point, vertex_depth, depth_map) ==
    RatLess(R(DepthAt(depth_map, RatTrunc(point[1]), RatTrunc(point[2]))),
            vertex_depth)

\* The image is the overlay painted on the camera picture: a function from
\* the painted pixels <<row, col>> to their colour.
BlankImage == [p \in {} |-> <<0, 0, 0>>]

\* A size x size marker around pos, clipped to the canvas.
draw_rect(image, pos, size, color) ==
    LET r0 == RatTrunc(pos[1]) - (size \div 2)
        c0 == RatTrunc(pos[2]) - (size \div 2)
        sq == {<<r, c>> : r \in r0..(r0 + size - 1), c \in c0..(c0 + size - 1)}
              \cap ((0..(WINDOW_HEIGHT - 1)) \X (0..(WINDOW_WIDTH - 1)))
    IN  [p \in (DOMAIN image) \cup sq |-> IF p \in sq THEN color ELSE image[p]]

\* Axis-aligned bounds [xmin, ymin, xmax, ymax] of the pixel projections.
calc_projected_2d_bbox(vertices) ==
    LET xs == {vertices[k][1] : k \in 1..Len(vertices)}
        ys == {vertices[k][2] : k \in 1..Len(vertices)}
        lo(S) == CHOOSE a \in S : \A b \in S : RatLeq(a, b)
        hi(S) == CHOOSE a \in S : \A b \in S : RatLeq(b, a)
    IN  <<lo(xs), lo(ys), hi(xs), hi(ys)>>

\* KittiDescriptor after set_type, set_bbox, set_3d_object_dimensions,
\* set_3d_object_location and set_rotation_y.
KittiDescriptor(type, bbox, dimensions, location, rot_y) ==
    <<type, bbox, dimensions, location, rot_y>>

LabelType(datapoint)       == datapoint[1]
LabelBbox(datapoint)       == datapoint[2]
LabelDimensions(datapoint) == datapoint[3]
LabelLocation(datapoint)   == datapoint[4]
LabelRotationY(datapoint)  == datapoint[5]

\* The 8 corners (+-extent.x, +-extent.y, +-extent.z) about the box anchor,
\* in the agent's local frame.
create_bb_points(agent) ==
    LET e == agent.extent
        a == agent.bbox_location
        c(sx, sy, sz) == <<RatAdd(a[1], RatMul(R(sx), e[1])),
                           RatAdd(a[2], RatMul(R(sy), e[2])),
                           RatAdd(a[3], RatMul(R(sz), e[3]))>>
    IN  << c(1, 1, -1), c(-1, 1, -1), c(-1, -1, -1), c(1, -1, -1),
           c(1, 1, 1),  c(-1, 1, 1),  c(-1, -1, 1),  c(1, -1, 1) >>

\* Agent frame to sensor frame, one point: the agent's world transform (its
\* rotation about the vertical axis, given by <<cos, sin>>, then its
\* location), then the inverse of the camera's (a camera looking along the
\* world x axis).
SensorPoint(p, agent, camera) ==
    LET cs == agent.rot[1]
        sn == agent.rot[2]
        l  == agent.location
        o  == camera.location
    IN  <<RatSub(RatAdd(l[1], RatSub(RatMul(p[1], cs), RatMul(p[2], sn))), o[1]),
          RatSub(RatAdd(l[2], RatAdd(RatMul(p[1], sn), RatMul(p[2], cs))), o[2]),
          RatSub(RatAdd(l[3], p[3]), o[3])>>

vehicle_to_sensor(cords, agent, camera) ==
    [k \in 1..Len(cords) |-> SensorPoint(cords[k], agent, camera)]

\* ------------------------------------------------------------------------
\* bounding_box.py: the pure parts
\* ------------------------------------------------------------------------

Dot(row, v) ==
    RatAdd(RatAdd(RatMul(row[1], v[1]), RatMul(row[2], v[2])), RatMul(row[3], v[3]))

\* Line 58: the axis reordering (y, -z, x) of a sensor-frame point.
cords_y_minus_z_x(v) == <<v[2], RatNeg(v[3]), v[1]>>

\* Line 59: the calibration matrix applied to a reordered point.
ApplyCalibration(camera_calibration, v) ==
    <<Dot(camera_calibration[1], v), Dot(camera_calibration[2], v),
      Dot(camera_calibration[3], v)>>

\* Line 60: perspective division, (u / w, v / w, w).
PerspectiveDivide(h) == <<RatDiv(h[1], h[3]), RatDiv(h[2], h[3]), h[3]>>

\* Lines 58-60 over the batch of 9 points.
camera_bbox_refpoint(cords_x_y_z, camera_calibration) ==
    [k \in 1..Len(cords_x_y_z) |->
       PerspectiveDivide(ApplyCalibration(camera_calibration,
                                          cords_y_minus_z_x(cords_x_y_z[k])))]

\* Lines 62-69: all rows but the last are the box, the last row is the
\* reference point.
SplitBoxAndRefpoint(cam, sen) ==
    [camera_bbox     |-> SubSeq(cam, 1, Len(cam) - 1),
     camera_refpoint |-> cam[Len(cam)],
     sensor_bbox     |-> SubSeq(sen, 1, Len(sen) - 1),
     sensor_refpoint |-> sen[Len(sen)]]

ProjectBatch(cords_x_y_z, camera_calibration) ==
    SplitBoxAndRefpoint(camera_bbox_refpoint(cords_x_y_z, camera_calibration),
                        cords_x_y_z)

\* get_bounding_box_and_refpoint: the 8 corners and the reference point
\* (0, 0, 0) go through the sensor transform, the axis reordering, the
\* calibration matrix and the perspective division as one batch of 9.
get_bounding_box_and_refpoint(agent, camera, camera_calibration) ==
    ProjectBatch(vehicle_to_sensor(Append(create_bb_points(agent),
                                          <<R(0), R(0), R(0)>>),
                                   agent, camera),
                 camera_calibration)

\* transforms_from_agent: the label class of the type tag, or None.
ObjType(type_id) ==
    IF StrIn(S_pedestrian, type_id) THEN S_Pedestrian
    ELSE IF StrIn(S_vehicle, type_id) THEN S_Car
    ELSE None

transforms_from_agent(agent) ==
    IF ObjType(agent.type_id) = None
    THEN [obj_type |-> None, ext |-> None, location |-> None]
    ELSE [obj_type |-> ObjType(agent.type_id),
          ext      |-> agent.extent,
          location |-> agent.location]

\* calc_bbox2d_area: bbox_2d is (xmin, ymin, xmax, ymax).
calc_bbox2d_area(bbox_2d) ==
    RatMul(RatSub(bbox_2d[4], bbox_2d[2]), RatSub(bbox_2d[3], bbox_2d[1]))

\* math.pi and math.radians, in units of pi.
math_pi == R(1)
math_radians(deg) == Rat(deg, 180)

\* get_relative_rotation_y: radians(agent yaw - player yaw), in degrees in.
get_relative_rotation_y(agent, player_transform) ==
    math_radians(agent.yaw - player_transform.yaw)

\* C's fmod: the remainder has the sign of x.
fmod(x, y) == RatSub(x, RatMul(R(RatTrunc(RatDiv(x, y))), y))

\* Python's float %: fmod, moved by y when it is non-zero and its sign is
\* not y's.
float_mod_c(x, y) == fmod(x, y)
float_mod(x, y) ==
    LET m == fmod(x, y)
    IN  IF m[1] # 0 /\ ((y[1] < 0) # (m[1] < 0)) THEN RatAdd(m, y) ELSE m

\* One iteration of the loop of calculate_occlusion_stats over the corner
\* p = (x_2d, y_2d, point_depth); st holds the two tallies, the image and
\* the number of depth-buffer lookups made so far.
OcclusionIter_nonstrict(st, p, depth_map, max_render_depth, draw_vertices) ==
    IF /\ RatLeq(p[3], R(max_render_depth)) /\ RatLess(R(0), p[3])
       /\ point_in_canvas(<<p[2], p[1]>>)
    THEN LET is_occluded == point_is_occluded(<<p[2], p[1]>>, p[3], depth_map)
             vertex_color == IF is_occluded THEN OCCLUDED_VERTEX_COLOR
                             ELSE VISIBLE_VERTEX_COLOR
         IN  [num_visible_vertices |->
                 IF is_occluded THEN st.num_visible_vertices
                 ELSE st.num_visible_vertices + 1,
              num_vertices_outside_camera |-> st.num_vertices_outside_camera,
              image |-> IF draw_vertices
                        THEN draw_rect(st.image, <<p[2], p[1]>>, VERTEX_MARKER_SIZE,
                                       vertex_color)
                        ELSE st.image,
              depth_reads |-> st.depth_reads + 1]
    ELSE [st EXCEPT !.num_vertices_outside_camera = @ + 1]

OcclusionIter(st, p, depth_map, max_render_depth, draw_vertices) ==
    IF /\ RatLess(p[3], R(max_render_depth)) /\ RatLess(R(0), p[3])
       /\ point_in_canvas(<<p[2], p[1]>>)
    THEN LET is_occluded == point_is_occluded(<<p[2], p[1]>>, p[3], depth_map)
             vertex_color == IF is_occluded THEN OCCLUDED_VERTEX_COLOR
                             ELSE VISIBLE_VERTEX_COLOR
         IN  [num_visible_vertices |->
                 IF is_occluded THEN st.num_visible_vertices
                 ELSE st.num_visible_vertices + 1,
              num_vertices_outside_camera |-> st.num_vertices_outside_camera,
              image |-> IF draw_vertices
                        THEN draw_rect(st.image, <<p[2], p[1]>>, VERTEX_MARKER_SIZE,
                                       vertex_color)
                        ELSE st.image,
              depth_reads |-> st.depth_reads + 1]
    ELSE [st EXCEPT !.num_vertices_outside_camera = @ + 1]

\* calculate_occlusion_stats as a function: the loop run over all the points.
RECURSIVE OcclusionLoop(_, _, _, _, _, _)
OcclusionLoop(st, bbox_points, k, depth_map, max_render_depth, draw_vertices) ==
    IF k > Len(bbox_points) THEN st
    ELSE OcclusionLoop(OcclusionIter(st, bbox_points[k], depth_map,
                                     max_render_depth, draw_vertices),
                       bbox_points, k + 1, depth_map, max_render_depth, draw_vertices)

calculate_occlusion_stats(image, bbox_points, depth_map, max_render_depth, draw_vertices) ==
    OcclusionLoop([num_visible_vertices |-> 0, num_vertices_outside_camera |-> 0,
                   image |-> image, depth_reads |-> 0],
                  bbox_points, 1, depth_map, max_render_depth, draw_vertices)


\* ------------------------------------------------------------------------
\* Inputs: the snapshots a caller can hand in
\* ------------------------------------------------------------------------

\* Lateral positions of a box: k * 7 for k in -MaxLateral..MaxLateral.
MaxLateral == 1
\* Agent yaws 10 + 360 * k for k in -MaxTurns..MaxTurns (whole turns away).
MaxTurns == 1

TypeTags == {TAG_walker, TAG_audi, TAG_prop}

AgentYaws  == {10 + 360 * k : k \in (-MaxTurns)..MaxTurns} \cup {-90, 0, 180}
PlayerYaws == {0, 370}

Upright == <<R(1), R(0)>>
Turned  == <<Rat(4, 5), Rat(3, 5)>>
Origin  == <<R(0), R(0), R(0)>>

Box(x, ext, rot, anchor) ==
    [x |-> x, extent |-> ext, rot |-> rot, bbox_location |-> anchor]

\* Boxes by forward distance, half sizes (x, y, z), rotation and anchor.
Boxes ==
    { Box(R(5),  <<R(1), R(1), R(1)>>, Upright, Origin),
      Box(R(4),  <<R(0), Rat(99, 100), Rat(101, 100)>>, Upright, Origin),
      Box(R(4),  <<R(0), Rat(73, 100), Rat(137, 100)>>, Upright, Origin),
      Box(R(5),  <<R(1), R(2), R(2)>>, Upright, <<R(0), R(0), Rat(1, 2)>>),
      Box(R(5),  <<R(1), Rat(1, 2), Rat(1, 2)>>, Upright, Origin),
      Box(R(-5), <<R(1), R(1), R(1)>>, Upright, Origin),
      Box(R(80), <<R(1), R(1), R(1)>>, Upright, Origin),
      Box(Rat(3, 5), <<Rat(1, 2), Rat(1, 2), Rat(1, 2)>>, Turned, Origin),
      Box(R(5),  <<R(1), R(1), R(1)>>, Turned, Origin) }

Scenes ==
    { [location      |-> <<b.x, R(7 * k), R(0)>>,
       extent        |-> b.extent,
       rot           |-> b.rot,
       bbox_location |-> b.bbox_location] :
      b \in Boxes, k \in (-MaxLateral)..MaxLateral }

AgentOf(tag, yaw, scene) ==
    [type_id |-> tag, yaw |-> yaw, rot |-> scene.rot, location |-> scene.location,
     bbox_location |-> scene.bbox_location, extent |-> scene.extent]

Agents == {AgentOf(t, y, sc) : t \in TypeTags, y \in AgentYaws, sc \in Scenes}

\* The agents handed to calculate_occlusion_stats directly.
PlainAgents == {AgentOf(TAG_walker, 0, sc) : sc \in Scenes}

TheCamera == [location |-> Origin]

\* Pinhole calibration: focal length 20 px, principal point (32, 24).
Calibration ==
    << <<R(20), R(0), R(32)>>, <<R(0), R(20), R(24)>>, <<R(0), R(0), R(1)>> >>

OpenDepth  == [bg |-> 1000, wall_from |-> 0, wall_to |-> -1, wall_depth |-> 0]
FlatDepth5 == [bg |-> 5,    wall_from |-> 0, wall_to |-> -1, wall_depth |-> 0]
LeftWall   == [bg |-> 1000, wall_from |-> 0, wall_to |-> 31, wall_depth |-> 2]
DepthMaps  == {OpenDepth, FlatDepth5, LeftWall}

RenderDepths == {DEFAULT_MAX_RENDER_DEPTH, 6}

\* ------------------------------------------------------------------------
\* State
\* ------------------------------------------------------------------------

VARIABLES
    entry,              \* the function the caller called
    agent, camera, cam_calibration, depth_map, player_transform,
    max_render_depth,   \* the arguments
    image,              \* the image array (shared with the caller)
    draw_vertices,      \* calculate_occlusion_stats's parameter
    pc,                 \* position in the call
    obj_type, ext,      \* results of transforms_from_agent
    camera_bbox, sensor_refpoint,
    i,                  \* loop index of calculate_occlusion_stats (from 1)
    num_visible_vertices, num_vertices_outside_camera,
    depth_reads,        \* depth-buffer lookups made by the running call
    bbox_2d, area,
    ret,                \* the returned tuple, <<>> while the call runs
    MinVisibleVertices, \* module global MIN_VISIBLE_VERTICES_FOR_RENDER
    MinBboxArea,        \* module global MIN_BBOX_AREA_IN_PX
    image0,             \* the image as it was when the call began
    remembered          \* an earlier call: <<its arguments, its outcome>>

args   == <<entry, agent, camera, cam_calibration, depth_map, player_transform,
            max_render_depth>>
locals == <<obj_type, ext, camera_bbox, sensor_refpoint, i, num_visible_vertices,
            num_vertices_outside_camera, depth_reads, bbox_2d, area>>
globals == <<MinVisibleVertices, MinBboxArea>>
vars == <<args, image, draw_vertices, pc, locals, ret, globals, image0, remembered>>

CREATE == "create_kitti_datapoint"
STATS  == "calculate_occlusion_stats"

\* ------------------------------------------------------------------------
\* One call
\* ------------------------------------------------------------------------

\* At import: the thresholds have their module values.
ModuleLoaded ==
    /\ MinVisibleVertices = MIN_VISIBLE_VERTICES_FOR_RENDER
    /\ MinBboxArea = MIN_BBOX_AREA_IN_PX

\* A caller calls create_kitti_datapoint(agent, camera, cam_calibration,
\* image, depth_map, player_transform, max_render_depth), or calls
\* calculate_occlusion_stats on a projected box with the overlay on or off.
Init ==
    /\ ModuleLoaded
    /\ entry \in {CREATE, STATS}
    /\ agent \in (IF entry = CREATE THEN Agents ELSE PlainAgents)
    /\ camera = TheCamera
    /\ cam_calibration = Calibration
    /\ depth_map \in DepthMaps
    /\ player_transform \in (IF entry = CREATE THEN {[yaw |-> y] : y \in PlayerYaws}
                             ELSE {[yaw |-> 0]})
    /\ max_render_depth \in RenderDepths
    /\ image = BlankImage
    /\ image0 = BlankImage
    /\ draw_vertices \in (IF entry = CREATE THEN {TRUE} ELSE BOOLEAN)
    /\ pc = (IF entry = CREATE THEN "classify" ELSE "occlusion")
    /\ obj_type = None
    /\ ext = None
    /\ camera_bbox = (IF entry = CREATE THEN None
                      ELSE get_bounding_box_and_refpoint(agent, camera,
                                                         cam_calibration).camera_bbox)
    /\ sensor_refpoint = None
    /\ i = 1
    /\ num_visible_vertices = 0
    /\ num_vertices_outside_camera = 0
    /\ depth_reads = 0
    /\ bbox_2d = None
    /\ area = None
    /\ ret = <<>>
    /\ remembered = None

\* Line 80: the agent was not classified, return at once.
UnclassifiedReturns_never(t) == FALSE
UnclassifiedReturns(t) == t = None

\* Lines 78-83.
Classify ==
    /\ pc = "classify"
    /\ LET t == transforms_from_agent(agent)
       IN  /\ obj_type' = t.obj_type
           /\ ext' = t.ext
           /\ IF UnclassifiedReturns(t.obj_type)
              THEN ret' = <<image, None>> /\ pc' = "done"
              ELSE ret' = ret /\ pc' = "geometry"
    /\ UNCHANGED <<args, image, draw_vertices, camera_bbox, sensor_refpoint, i,
                   num_visible_vertices, num_vertices_outside_camera, depth_reads,
                   bbox_2d, area, globals, image0, remembered>>

\* Line 91: create_kitti_datapoint passes draw_vertices=False.
CallDrawVertices_default == TRUE
CallDrawVertices == FALSE

\* Lines 85-91: project the box, then enter calculate_occlusion_stats.
Geometry ==
    /\ pc = "geometry"
    /\ LET g == get_bounding_box_and_refpoint(agent, camera, cam_calibration)
       IN  /\ camera_bbox' = g.camera_bbox
           /\ sensor_refpoint' = g.sensor_refpoint
    /\ draw_vertices' = CallDrawVertices
    /\ i' = 1
    /\ num_visible_vertices' = 0
    /\ num_vertices_outside_camera' = 0
    /\ depth_reads' = 0
    /\ pc' = "occlusion"
    /\ UNCHANGED <<args, image, obj_type, ext, bbox_2d, area, ret, globals,
                   image0, remembered>>

\* Lines 26-43: one iteration of the loop.
OcclusionStep ==
    /\ pc = "occlusion"
    /\ i <= Len(camera_bbox)
    /\ LET st == OcclusionIter([num_visible_vertices |-> num_visible_vertices,
                                num_vertices_outside_camera |-> num_vertices_outside_camera,
                                image |-> image, depth_reads |-> depth_reads],
                               camera_bbox[i], depth_map, max_render_depth,
                               draw_vertices)
       IN  /\ num_visible_vertices' = st.num_visible_vertices
           /\ num_vertices_outside_camera' = st.num_vertices_outside_camera
           /\ image' = st.image
           /\ depth_reads' = st.depth_reads
    /\ i' = i + 1
    /\ UNCHANGED <<args, draw_vertices, pc, obj_type, ext, camera_bbox,
                   sensor_refpoint, bbox_2d, area, ret, globals, image0, remembered>>

\* Line 44: the loop is over, the two tallies go back to the caller.
OcclusionReturn ==
    /\ pc = "occlusion"
    /\ i > Len(camera_bbox)
    /\ IF entry = STATS
       THEN /\ ret' = <<num_visible_vertices, num_vertices_outside_camera>>
            /\ pc' = "done"
       ELSE /\ ret' = ret
            /\ pc' = "gate"
    /\ UNCHANGED <<args, image, draw_vertices, locals, globals, image0, remembered>>

\* Line 94: num_visible_vertices >= MIN_VISIBLE_VERTICES_FOR_RENDER >
\* num_vertices_outside_camera.
PassesVisibilityGate_visible_only(nv, no, min) == nv >= min
PassesVisibilityGate_swapped(nv, no, min) == no >= min /\ min > nv
PassesVisibilityGate(nv, no, min) == nv >= min /\ min > no

\* Lines 94, 116-117.
VisibilityGate ==
    /\ pc = "gate"
    /\ IF PassesVisibilityGate(num_visible_vertices, num_vertices_outside_camera,
                               MinVisibleVertices)
       THEN ret' = ret /\ pc' = "area"
       ELSE ret' = <<image, None, None>> /\ pc' = "done"
    /\ UNCHANGED <<args, image, draw_vertices, locals, globals, image0, remembered>>

\* Line 100: the points handed to calc_projected_2d_bbox are all of camera_bbox.
BboxCorners_inside_only ==
    SelectSeq(camera_bbox,
              LAMBDA p : /\ RatLess(p[3], R(max_render_depth)) /\ RatLess(R(0), p[3])
                         /\ point_in_canvas(<<p[2], p[1]>>))
BboxCorners == camera_bbox

\* Line 103: area < MIN_BBOX_AREA_IN_PX.
AreaTooLow_leq(a, min) == RatLeq(a, R(min))
AreaTooLow(a, min) == RatLess(a, R(min))

\* Lines 100-105.
AreaGate ==
    /\ pc = "area"
    /\ bbox_2d' = calc_projected_2d_bbox(BboxCorners)
    /\ area' = calc_bbox2d_area(bbox_2d')
    /\ IF AreaTooLow(area', MinBboxArea)
       THEN ret' = <<image, None, None>> /\ pc' = "done"
       ELSE ret' = ret /\ pc' = "emit"
    /\ UNCHANGED <<args, image, draw_vertices, obj_type, ext, camera_bbox,
                   sensor_refpoint, i, num_visible_vertices,
                   num_vertices_outside_camera, depth_reads, globals, image0,
                   remembered>>

\* Line 107: get_relative_rotation_y(agent, player_transform) % math.pi.
RotationY_fmod(a, p) == float_mod_c(get_relative_rotation_y(a, p), math_pi)
RotationY(a, p) == float_mod(get_relative_rotation_y(a, p), math_pi)

\* The module globals after a call: no statement of the module assigns them.
GlobalsAfterCall_adaptive == <<MinVisibleVertices, MinBboxArea + 1>>
GlobalsAfterCall == <<MinVisibleVertices, MinBboxArea>>

\* Lines 107-115.
Emit ==
    /\ pc = "emit"
    /\ ret' = <<image,
                KittiDescriptor(obj_type, bbox_2d, ext, sensor_refpoint,
                                RotationY(agent, player_transform)),
                camera_bbox>>
    /\ pc' = "done"
    /\ MinVisibleVertices' = GlobalsAfterCall[1]
    /\ MinBboxArea' = GlobalsAfterCall[2]
    /\ UNCHANGED <<args, image, draw_vertices, locals, image0, remembered>>

Next ==
    \/ Classify
    \/ Geometry
    \/ OcclusionStep
    \/ OcclusionReturn
    \/ VisibilityGate
    \/ AreaGate
    \/ Emit

Spec == Init /\ [][Next]_vars

\* ------------------------------------------------------------------------
\* A sequence of calls on the same module
\* ------------------------------------------------------------------------

CallAgents ==
    {AgentOf(t, y, [location |-> <<b.x, R(0), R(0)>>, extent |-> b.extent,
                    rot |-> b.rot, bbox_location |-> b.bbox_location]) :
       t \in TypeTags, y \in {10, -350},
       b \in { Box(R(5),  <<R(1), R(1), R(1)>>, Upright, Origin),
               Box(R(5),  <<R(1), Rat(1, 2), Rat(1, 2)>>, Upright, Origin),
               Box(R(-5), <<R(1), R(1), R(1)>>, Upright, Origin) }}

CallDepthMaps == {OpenDepth, FlatDepth5}

\* The arguments the outcome of create_kitti_datapoint may depend on.
CallArgs ==
    <<agent, camera, cam_calibration, depth_map, player_transform, max_render_depth>>

\* No call has been made yet.
InitCalls ==
    /\ ModuleLoaded
    /\ entry = CREATE
    /\ agent = AgentOf(TAG_prop, 10, [location |-> <<R(5), R(0), R(0)>>,
                                      extent |-> <<R(1), R(1), R(1)>>,
                                      rot |-> Upright, bbox_location |-> Origin])
    /\ camera = TheCamera
    /\ cam_calibration = Calibration
    /\ depth_map = OpenDepth
    /\ player_transform = [yaw |-> 0]
    /\ max_render_depth = DEFAULT_MAX_RENDER_DEPTH
    /\ image = BlankImage
    /\ image0 = BlankImage
    /\ draw_vertices = TRUE
    /\ pc = "done"
    /\ obj_type = None
    /\ ext = None
    /\ camera_bbox = None
    /\ sensor_refpoint = None
    /\ i = 1
    /\ num_visible_vertices = 0
    /\ num_vertices_outside_camera = 0
    /\ depth_reads = 0
    /\ bbox_2d = None
    /\ area = None
    /\ ret = <<>>
    /\ remembered = None

\* The caller calls create_kitti_datapoint again, for any agent of the frame;
\* it may keep the call that has just returned to compare a later one with.
Call ==
    /\ pc = "done"
    /\ entry' = CREATE
    /\ agent' \in CallAgents
    /\ depth_map' \in CallDepthMaps
    /\ player_transform' \in {[yaw |-> y] : y \in PlayerYaws}
    /\ max_render_depth' = DEFAULT_MAX_RENDER_DEPTH
    /\ remembered' \in {remembered} \cup
                       (IF ret # <<>> THEN {<<CallArgs, ret[2]>>} ELSE {})
    /\ image0' = image
    /\ draw_vertices' = TRUE
    /\ pc' = "classify"
    /\ obj_type' = None
    /\ ext' = None
    /\ camera_bbox' = None
    /\ sensor_refpoint' = None
    /\ i' = 1
    /\ num_visible_vertices' = 0
    /\ num_vertices_outside_camera' = 0
    /\ depth_reads' = 0
    /\ bbox_2d' = None
    /\ area' = None
    /\ ret' = <<>>
    /\ UNCHANGED <<camera, cam_calibration, image, globals>>

NextCalls ==
    \/ Call
    \/ Classify
    \/ Geometry
    \/ OcclusionStep
    \/ OcclusionReturn
    \/ VisibilityGate
    \/ AreaGate
    \/ Emit

SpecCalls == InitCalls /\ [][NextCalls]_vars

\* ------------------------------------------------------------------------
\* Properties
\* ------------------------------------------------------------------------

RatEq(a, b) == a[1] * b[2] = b[1] * a[2]

CreateDone == entry = CREATE /\ pc = "done"
HasLabel   == CreateDone /\ Len(ret) >= 2 /\ ret[2] # None
NoLabel    == CreateDone /\ Len(ret) >= 2 /\ ret[2] = None

Recognised(a) == StrIn(S_pedestrian, a.type_id) \/ StrIn(S_vehicle, a.type_id)

\* The 8 corner projections of the call's agent, from the arguments.
Corners == get_bounding_box_and_refpoint(agent, camera, cam_calibration).camera_bbox

InDepthRange(p) == RatLess(R(0), p[3]) /\ RatLess(p[3], R(max_render_depth))
InCanvas(p) ==
    /\ RatLeq(R(0), p[1]) /\ RatLess(p[1], R(WINDOW_WIDTH))
    /\ RatLeq(R(0), p[2]) /\ RatLess(p[2], R(WINDOW_HEIGHT))
StoredDepth(p) == R(DepthAt(depth_map, RatTrunc(p[2]), RatTrunc(p[1])))

\* Area of the axis-aligned bound of a set of corner projections.
Least(S)    == CHOOSE a \in S : \A b \in S : RatLeq(a, b)
Greatest(S) == CHOOSE a \in S : \A b \in S : RatLeq(b, a)
BoundArea(pts) ==
    LET xs == {pts[k][1] : k \in 1..Len(pts)}
        ys == {pts[k][2] : k \in 1..Len(pts)}
    IN  RatMul(RatSub(Greatest(ys), Least(ys)), RatSub(Greatest(xs), Least(xs)))

\* C1: create_kitti_datapoint returns a label only if the agent's type tag
\* was mapped to a class (Pedestrian or Car), num_visible >= 4,
\* num_outside < 4 and the area of the 2D box is not below 100.
C1_LabelOnlyIfGatesPass ==
    HasLabel =>
        /\ Recognised(agent)
        /\ LabelType(ret[2]) \in {S_Pedestrian, S_Car}
        /\ num_visible_vertices >= 4
        /\ num_vertices_outside_camera < 4
        /\ ~RatLess(calc_bbox2d_area(LabelBbox(ret[2])), R(100))

\* A label at both thresholds: exactly 4 visible corners, area exactly 100.
C1_Witness ==
    /\ HasLabel
    /\ num_visible_vertices = 4
    /\ num_vertices_outside_camera = 0
    /\ RatEq(calc_bbox2d_area(LabelBbox(ret[2])), R(100))

\* C2: an agent whose type tag contains neither "pedestrian" nor "vehicle"
\* gets no label, and the call ends right after classification: neither the
\* projection nor the visibility test (nor any depth-buffer lookup) runs.
C2_UnclassifiedEndsAtOnce ==
    (entry = CREATE /\ ~Recognised(agent)) =>
        /\ pc \in {"classify", "done"}
        /\ camera_bbox = None
        /\ sensor_refpoint = None
        /\ i = 1
        /\ num_visible_vertices = 0
        /\ num_vertices_outside_camera = 0
        /\ depth_reads = 0
        /\ pc = "done" => (Len(ret) >= 2 /\ ret[2] = None)

\* "static.prop.box" has returned, without a label.
C2_Witness ==
    /\ CreateDone
    /\ agent.type_id = TAG_prop
    /\ NoLabel

\* C3: each loop iteration of calculate_occlusion_stats classifies its corner
\* (x, y, d) alone: d <= 0 or d >= max_render_depth: outside, no depth-buffer
\* lookup; else out of the canvas: outside; else occluded (no tally changes)
\* when the stored depth is strictly less than d, visible otherwise.  The
\* function returns the two tallies.
C3_CornerRule ==
    [][ /\ (pc = "occlusion" /\ i <= Len(camera_bbox) /\ i' = i + 1) =>
            LET p == camera_bbox[i]
            IN  IF RatLeq(p[3], R(0)) \/ RatLeq(R(max_render_depth), p[3])
                THEN /\ num_vertices_outside_camera' = num_vertices_outside_camera + 1
                     /\ num_visible_vertices' = num_visible_vertices
                     /\ depth_reads' = depth_reads
                ELSE IF ~InCanvas(p)
                THEN /\ num_vertices_outside_camera' = num_vertices_outside_camera + 1
                     /\ num_visible_vertices' = num_visible_vertices
                     /\ depth_reads' = depth_reads
                ELSE IF RatLess(StoredDepth(p), p[3])
                THEN /\ num_vertices_outside_camera' = num_vertices_outside_camera
                     /\ num_visible_vertices' = num_visible_vertices
                     /\ depth_reads' = depth_reads + 1
                ELSE /\ num_vertices_outside_camera' = num_vertices_outside_camera
                     /\ num_visible_vertices' = num_visible_vertices + 1
                     /\ depth_reads' = depth_reads + 1
        /\ (entry = STATS /\ pc = "occlusion" /\ pc' = "done") =>
            ret' = <<num_visible_vertices, num_vertices_outside_camera>>
      ]_vars

\* Stored depth 5 everywhere; the box has corners at depth 4 (visible) and at
\* depth 6 (occluded); the loop has run over all 8 of them.
C3_Witness ==
    /\ pc = "occlusion"
    /\ i = 9
    /\ depth_map = FlatDepth5
    /\ \A k \in 1..8 : InDepthRange(camera_bbox[k]) /\ InCanvas(camera_bbox[k])
    /\ {camera_bbox[k][3] : k \in 1..8} = {R(4), R(6)}
    /\ num_visible_vertices = Cardinality({k \in 1..8 : camera_bbox[k][3] = R(4)})
    /\ num_visible_vertices = 4
    /\ num_vertices_outside_camera = 0

\* C4: a recognised agent whose 8 projected corners all have a depth strictly
\* between 0 and max_render_depth, lie in the canvas and have no closer scene
\* depth stored at their pixel, and whose box area is above the threshold:
\* num_visible = 8, num_outside = 0 and a label is returned.
C4_Pre ==
    /\ Recognised(agent)
    /\ LET c == Corners
       IN  /\ \A k \in 1..8 :
                 /\ InDepthRange(c[k])
                 /\ InCanvas(c[k])
                 /\ ~RatLess(StoredDepth(c[k]), c[k][3])
           /\ RatLess(R(100), BoundArea(c))

C4_FullyVisibleGetsLabel ==
    (CreateDone /\ C4_Pre) =>
        /\ num_visible_vertices = 8
        /\ num_vertices_outside_camera = 0
        /\ HasLabel

C4_Witness == CreateDone /\ C4_Pre /\ HasLabel

\* C5 as stated: past classification and the visibility gate, a box of area
\* exactly 100 is rejected, 99.99 is rejected and 100.01 is accepted.
C5_Pre ==
    /\ CreateDone
    /\ Recognised(agent)
    /\ num_visible_vertices >= 4
    /\ num_vertices_outside_camera < 4

C5_Area100Rejected ==
    C5_Pre =>
        LET a == BoundArea(Corners)
        IN  /\ RatEq(a, R(100))          => NoLabel
            /\ RatEq(a, Rat(9999, 100))  => NoLabel
            /\ RatEq(a, Rat(10001, 100)) => HasLabel

\* C5 amended: past classification and the visibility gate, a box is rejected
\* exactly when its area is below 100: area exactly 100 is accepted, 99.99 is
\* rejected and 100.01 is accepted.
C5_AreaBoundary ==
    C5_Pre =>
        LET a == BoundArea(Corners)
        IN  /\ RatLess(a, R(100)) <=> NoLabel
            /\ RatEq(a, R(100))          => HasLabel
            /\ RatEq(a, Rat(9999, 100))  => NoLabel
            /\ RatEq(a, Rat(10001, 100)) => HasLabel

\* A box of area exactly 100 got its label.
C5_Witness == C5_Pre /\ RatEq(BoundArea(Corners), R(100)) /\ HasLabel

C7_Deterministic ==
    /\ MinVisibleVertices = MIN_VISIBLE_VERTICES_FOR_RENDER
    /\ MinBboxArea = MIN_BBOX_AREA_IN_PX
    /\ (CreateDone /\ ret # <<>> /\ remembered # None /\ remembered[1] = CallArgs)
          => ret[2] = remembered[2]

\* A call with the arguments of a remembered earlier call has returned, and
\* a label both times.
C7_Witness ==
    /\ HasLabel
    /\ remembered # None
    /\ remembered[1] = CallArgs
    /\ remembered[2] = ret[2]

\* C8: the overlay is isolated from the result.  calculate_occlusion_stats
\* returns the same two tallies with draw_vertices on and off; no step
\* changes the depth buffer; create_kitti_datapoint, which calls it with the
\* overlay off, leaves the image as it was given and returns it so.
C8_State ==
    /\ (entry = STATS /\ pc = "done") =>
          LET other == calculate_occlusion_stats(image0, camera_bbox, depth_map,
                                                 max_render_depth, ~draw_vertices)
          IN  ret = <<other.num_visible_vertices, other.num_vertices_outside_camera>>
    /\ entry = CREATE => image = image0
    /\ CreateDone => ret[1] = image0

C8_OverlayIsolated == [](C8_State) /\ [][depth_map' = depth_map]_vars

\* A call with the overlay on has painted markers and returned.
C8_Witness ==
    /\ entry = STATS
    /\ pc = "done"
    /\ draw_vertices
    /\ image # image0
    /\ ret[1] > 0

\* C9: the 2D box of a label bounds all 8 projected corners, whatever their
\* verdicts: every corner lies within it and each side passes through one.
C9_BoxBoundsAllCorners ==
    HasLabel =>
        LET b == LabelBbox(ret[2])
            c == Corners
        IN  /\ Len(c) = 8
            /\ \A k \in 1..8 :
                  /\ RatLeq(b[1], c[k][1]) /\ RatLeq(c[k][1], b[3])
                  /\ RatLeq(b[2], c[k][2]) /\ RatLeq(c[k][2], b[4])
            /\ \E k \in 1..8 : RatEq(c[k][1], b[1])
            /\ \E k \in 1..8 : RatEq(c[k][1], b[3])
            /\ \E k \in 1..8 : RatEq(c[k][2], b[2])
            /\ \E k \in 1..8 : RatEq(c[k][2], b[4])

\* A label whose box is set by corners that are not visible: its top edge by
\* corners behind the camera, while some corner in the canvas is occluded or
\* some corner is out of the canvas.
C9_Witness ==
    /\ HasLabel
    /\ num_vertices_outside_camera > 0
    /\ LET c == Corners
       IN  \E k \in 1..8 :
             /\ ~InDepthRange(c[k]) \/ ~InCanvas(c[k])
             /\ RatEq(c[k][1], LabelBbox(ret[2])[1])
             /\ \A j \in 1..8 :
                   (InDepthRange(c[j]) /\ InCanvas(c[j])) => RatLess(c[k][1], c[j][1])

\* C10: every return of create_kitti_datapoint is a triple (image, label or
\* None, projected box or None), the box present exactly when the label is.
C10_AlwaysATriple ==
    CreateDone =>
        /\ Len(ret) = 3
        /\ (ret[3] # None) <=> (ret[2] # None)

============================================================================
